---- MODULE Spec2Model ----
(***************************************************************************)
(* The interactive resource selectors of cumulus (internal/ui): the        *)
(* instance, VM, ASG, load-balancer, VPC, profile and context selectors.   *)
(* Each is a bubbletea model (NewModel / Update / View) driven by a        *)
(* Select function.  Strings are sequences of one-character tokens of      *)
(* display width 1; integers index slices from 0 as in the Go code.        *)
(***************************************************************************)
EXTENDS Integers, Sequences, FiniteSets, TLC

VARIABLES
    variant,      \* which selector runs
    input,        \* the item list handed to the Select function
    current,      \* SelectContext's current / SelectProfile's activeProfile (0: none)
    m,            \* the bubbletea model value of the running program (fields as in
                  \* the Go structs); the zero model before and after the program runs
    pc,           \* "idle", "running" (inside p.Run), "returned" (Select returned) or
                  \* "done" (the calling command returned)
    quitPending,  \* a tea.Quit command was returned and its QuitMsg is in flight
    late,         \* events Update processed after the first tea.Quit
    programRuns,  \* tea.NewProgram(m).Run() was called (terminal mode acquired)
    firstQuit,    \* history: the first message for which Update returned tea.Quit
                  \* (its kind, the key of a commit, and what the commit selected)
    ret,          \* what the Select function returned
    cmdErr,       \* what the calling command returned to Execute ("nil": success)
    terminal,     \* "cooked", or "raw" while p.Run holds the terminal
    frame         \* the model value the last View call of the program rendered

vars ==
    <<variant, input, current, m, pc, quitPending, late, programRuns, firstQuit, ret, cmdErr,
      terminal, frame>>

-----------------------------------------------------------------------------
(* Bounds of the model *)

MaxItems == 11     \* longest item list handed to a Select function
MaxQuery == 2      \* longest search string typed
MaxLate == 1       \* most events processed between tea.Quit and the QuitMsg
LongPad == 30      \* padding of the one long resource name

(* Program constants *)

listHeight == 8
profileListHeight == 10
asgListHeight == 8
lbListHeight == 8
vpcListHeight == 8
minWidth == 60
maxWidth == 120
colWidthID == 21
colWidthIP == 15
colWidthState == 10
vmColWidthID == 21
vmColWidthState == 10
vmColWidthType == 12
vmColWidthZone == 16
asgColWidthCap == 12
asgColWidthCount == 10
defaultTermWidth == 80

Variants == {"instance", "vm", "asg", "lb", "vpc", "profile", "context"}

Max(a, b) == IF a >= b THEN a ELSE b
Min(a, b) == IF a <= b THEN a ELSE b

-----------------------------------------------------------------------------
(* Strings *)

\* the characters of the model in ASCII order (sort.Strings compares bytes)
AsciiOrder ==
    <<" ", "-", ".", "/", "0", "1", "2", "3", "4", "5", "6", "7", "8", "9", ">",
      "A", "D", "G", "S", "W", "a", "b", "c", "d", "e", "g", "i", "l", "m", "n", "o",
      "p", "q", "r", "s", "t", "u", "v", "w", "x", "z">>

Ord(c) == CHOOSE i \in 1..Len(AsciiOrder) : AsciiOrder[i] = c

\* unicode.ToLower on one character
LowerChar(c) ==
    CASE c = "A" -> "a"
      [] c = "D" -> "d"
      [] c = "G" -> "g"
      [] c = "S" -> "s"
      [] c = "W" -> "w"
      [] OTHER -> c

\* unicode.ToUpper on one character
UpperChar(c) ==
    CASE c = "a" -> "A"
      [] c = "d" -> "D"
      [] c = "g" -> "G"
      [] c = "s" -> "S"
      [] c = "w" -> "W"
      [] c = "c" -> "C"
      [] c = "p" -> "P"
      [] OTHER -> c

ToLower(s) == [i \in 1..Len(s) |-> LowerChar(s[i])]

ToUpper(s) == [i \in 1..Len(s) |-> UpperChar(s[i])]

RECURSIVE IndexFrom(_, _, _)
\* strings.Index scanning from position i (1-based); -1 when substr is absent
IndexFrom(s, substr, i) ==
    IF i + Len(substr) - 1 > Len(s) THEN -1
    ELSE IF SubSeq(s, i, i + Len(substr) - 1) = substr THEN i - 1
    ELSE IndexFrom(s, substr, i + 1)

Contains(s, substr) == IndexFrom(s, substr, 1) >= 0

Repeat(c, n) == [i \in 1..Max(n, 0) |-> c]

\* lexicographic byte order of two strings, as sort.Strings uses
RECURSIVE StrLess(_, _)
StrLess(a, b) ==
    IF Len(b) = 0 THEN FALSE
    ELSE IF Len(a) = 0 THEN TRUE
    ELSE IF Ord(a[1]) # Ord(b[1]) THEN Ord(a[1]) < Ord(b[1])
    ELSE StrLess(Tail(a), Tail(b))

\* runewidth.StringWidth: every character of the model is one column wide
StringWidth(s) == Len(s)

\* runewidth.Truncate(s, w, tail)
Truncate(s, w, tail) ==
    IF StringWidth(s) <= w THEN s
    ELSE SubSeq(s, 1, Min(Len(s), Max(w - StringWidth(tail), 0))) \o tail

Ellipsis == <<".", ".", ".">>

padRight(s, width) ==
    IF StringWidth(s) >= width THEN Truncate(s, width, Ellipsis)
    ELSE s \o Repeat(" ", width - StringWidth(s))

padToWidth(s, width) ==
    IF StringWidth(s) >= width THEN Truncate(s, width, Ellipsis)
    ELSE s \o Repeat(" ", width - StringWidth(s))

\* strconv.Itoa / fmt's %d for the small naturals of the model
RECURSIVE Itoa(_)
Itoa(n) ==
    LET digit(d) == <<"0", "1", "2", "3", "4", "5", "6", "7", "8", "9">>[d + 1]
    IN  IF n < 10 THEN <<digit(n)>> ELSE Itoa(n \div 10) \o <<digit(n % 10)>>

-----------------------------------------------------------------------------
(* The catalogue of resources the item lists are drawn from.  Resource k   *)
(* carries the fields of every record type of pkg/types that a selector    *)
(* reads.                                                                  *)

Digits == <<"1", "2", "3", "4", "5", "6", "7", "8", "9", "p", "q", "r", "s", "t">>

Name(k) ==
    IF k = 4 THEN <<"W", "e", "b", "4">> \o Repeat("n", LongPad)
    ELSE (IF k % 4 = 2 THEN <<"d", "b">> ELSE <<"W", "e", "b">>) \o <<Digits[k]>>

ID(k) == <<"i", "-", Digits[k]>>

PrivateIP(k) == <<"1", "0", ".", Digits[k]>>

ASG(k) == IF k = 2 THEN <<"W", "3">> ELSE <<>>

Type(k) == IF k = 6 THEN <<"W", "3">> ELSE <<"m", "x">>

Zone(k) == IF k = 8 THEN <<"W", "3">> ELSE <<"a", "z">>

DNSName(k) == IF k = 2 THEN <<"W", "3">> ELSE <<"l", "b">>

CIDR(k) == IF k = 6 THEN <<"W", "3">> ELSE <<"1", "0", "/", "8">>

Region(k) == IF k = 8 THEN <<"W", "3">> ELSE <<>>

State(k) ==
    IF k % 3 = 1 THEN <<"r", "u", "n", "n", "i", "n", "g">>
    ELSE IF k % 3 = 2 THEN <<"s", "t", "o", "p", "p", "e", "d">>
    ELSE <<"t", "e", "r", "m", "i", "n", "a", "t", "e", "d">>

Provider(k) == IF k % 2 = 1 THEN <<"a", "w", "s">> ELSE <<"g", "c", "p">>

Profile(k) == <<"d", "e", "v">>

Project(k) == IF k % 2 = 0 THEN <<"p", "r", "o", "j">> ELSE <<>>

DesiredCapacity(k) == k

MinSize(k) == 1

MaxSize(k) == 10 * k

InstanceCount(k) == k

PublicIP(k) == IF k % 2 = 0 THEN <<>> ELSE <<"5", "2", ".", Digits[k]>>

LaunchTemplate(k) == IF k % 2 = 1 THEN <<"l", "t", "-", Digits[k]>> ELSE <<>>

HealthyCount(k) == k

Status(k) == <<"I", "n", "S", "e", "r", "v", "i", "c", "e">>

\* the availability zones of a resource: three for the odd resources, one for the rest
AZs(k) ==
    IF k % 2 = 1
    THEN <<<<"a", "p", "-", "s", "o", "u", "t", "h", "e", "a", "s", "t", "-", "1", "a">>,
           <<"a", "p", "-", "s", "o", "u", "t", "h", "e", "a", "s", "t", "-", "1", "b">>,
           <<"a", "p", "-", "s", "o", "u", "t", "h", "e", "a", "s", "t", "-", "1", "c">>>>
    ELSE <<Zone(k)>>

Scheme(k) == <<"i", "n", "t", "e", "r", "n", "a", "l">>

VPCID(k) == <<"v", "p", "c", "-", Digits[k]>>

IsDefault(k) == k = 1

OwnerID(k) == <<"1", "2", "3", "4">>

\* time.Time.Format("2006-01-02 15:04:05") of the launch time
LaunchText(k) ==
    <<"2", "0", "2", "4", "-", "0", "1", "-", "0", "2", " ", "0", "3", ":", "0", "4",
      ":", "0", "5">>

-----------------------------------------------------------------------------
(* Filter *)

\* the fields the variant's filter function searches, in the order of its || chain
SearchFields(v, k) ==
    CASE v = "instance" -> <<Name(k), ID(k), PrivateIP(k), ASG(k)>>
      [] v = "vm" -> <<Name(k), ID(k), PrivateIP(k), Type(k), Zone(k)>>
      [] v = "asg" -> <<Name(k)>>
      [] v = "lb" -> <<Name(k), DNSName(k), Type(k)>>
      [] v = "vpc" -> <<Name(k), ID(k), CIDR(k)>>
      [] v = "profile" -> <<Name(k), Region(k)>>
      [] v = "context" -> <<Name(k)>>

\* a filter that looks at the name alone
MatchesName(v, k, query) == Contains(ToLower(Name(k)), query)

\* strings.ToLower(field) of every searched field of every resource, by variant
LowerFields ==
    [v \in Variants |->
        [k \in 1..MaxItems |->
            [i \in 1..Len(SearchFields(v, k)) |-> ToLower(SearchFields(v, k)[i])]]]

\* the condition of the if inside the filter loop: some field, lower-cased, contains query
MatchesAny(v, k, query) ==
    \E i \in 1..Len(LowerFields[v][k]) : Contains(LowerFields[v][k][i], query)

RECURSIVE FilterLoopPrepend(_, _, _, _, _)
\* a filter loop that puts each match in front of the earlier ones
FilterLoopPrepend(v, items, query, i, acc) ==
    IF i > Len(items) THEN acc
    ELSE FilterLoopPrepend(v, items, query, i + 1,
                           IF MatchesAny(v, items[i], query) THEN <<items[i]>> \o acc ELSE acc)

RECURSIVE FilterLoop(_, _, _, _, _)
\* for _, inst := range items { if ... { filtered = append(filtered, inst) } }
FilterLoop(v, items, query, i, acc) ==
    IF i > Len(items) THEN acc
    ELSE FilterLoop(v, items, query, i + 1,
                    IF MatchesAny(v, items[i], query) THEN Append(acc, items[i]) ELSE acc)

ListHeight(v) ==
    CASE v = "profile" -> profileListHeight
      [] v = "asg" -> asgListHeight
      [] v = "lb" -> lbListHeight
      [] v = "vpc" -> vpcListHeight
      [] OTHER -> listHeight

\* a filter that leaves the cursor where it was
filterItemsNoClamp(v, mm) ==
    LET f == IF mm.search = <<>> THEN mm.items
             ELSE FilterLoop(v, mm.items, ToLower(mm.search), 1, <<>>)
    IN  [mm EXCEPT !.filtered = f, !.offset = 0]

\* a filter that collects the matches in the array of the item list itself
\* (filtered = items[:0] followed by append), overwriting its first elements
filterItemsInPlace(v, mm) ==
    LET f == IF mm.search = <<>> THEN mm.items
             ELSE FilterLoop(v, mm.items, ToLower(mm.search), 1, <<>>)
        c == IF mm.cursor >= Len(f)
             THEN (IF Len(f) > 0 THEN Len(f) - 1 ELSE 0)
             ELSE mm.cursor
    IN  [mm EXCEPT !.items = f \o SubSeq(mm.items, Len(f) + 1, Len(mm.items)),
                   !.filtered = f, !.cursor = c, !.offset = 0]

\* a filter that appends the matches to the list it had (m.filtered = nil left out)
filterItemsNoReset(v, mm) ==
    LET f == IF mm.search = <<>> THEN mm.items
             ELSE mm.filtered \o FilterLoop(v, mm.items, ToLower(mm.search), 1, <<>>)
        c == IF mm.cursor >= Len(f)
             THEN (IF Len(f) > 0 THEN Len(f) - 1 ELSE 0)
             ELSE mm.cursor
    IN  [mm EXCEPT !.filtered = f, !.cursor = c, !.offset = 0]

\* a filter that leaves the scroll offset where it was
filterItemsKeepOffset(v, mm) ==
    LET f == IF mm.search = <<>> THEN mm.items
             ELSE FilterLoop(v, mm.items, ToLower(mm.search), 1, <<>>)
        c == IF mm.cursor >= Len(f)
             THEN (IF Len(f) > 0 THEN Len(f) - 1 ELSE 0)
             ELSE mm.cursor
    IN  [mm EXCEPT !.filtered = f, !.cursor = c]

\* filterInstances / filterVMs / filterGroups / filterLBs / filterVPCs /
\* filterProfiles / filterContexts
filterItems(v, mm) ==
    LET f == IF mm.search = <<>> THEN mm.items
             ELSE FilterLoop(v, mm.items, ToLower(mm.search), 1, <<>>)
        c == IF mm.cursor >= Len(f)
             THEN (IF Len(f) > 0 THEN Len(f) - 1 ELSE 0)
             ELSE mm.cursor
    IN  [mm EXCEPT !.filtered = f, !.cursor = c, !.offset = 0]

-----------------------------------------------------------------------------
(* Layout *)

\* contentWidth = termWidth - 2, raised to minWidth and lowered to maxWidth
ClampWidth(termWidth) ==
    LET w0 == termWidth - 2
        w1 == IF w0 < minWidth THEN minWidth ELSE w0
    IN  IF w1 > maxWidth THEN maxWidth ELSE w1

fixedWidth == 3 + colWidthID + 2 + colWidthIP + 2 + colWidthState + 2

vmFixedWidth == 3 + vmColWidthID + 2 + vmColWidthState + 2 + vmColWidthType + 2 + vmColWidthZone + 2

\* the credential column of a context: its project when set, else its profile
Cred(k) == IF Project(k) # <<>> THEN Project(k) ELSE Profile(k)

\* the region column of a context or profile: "-" when empty
RegionText(k) == IF Region(k) = <<>> THEN <<"-">> ELSE Region(k)

RECURSIVE MaxOver(_, _, _)
\* for _, item := range items { w = max(w, width of the item's field) }, over the
\* sequence of those widths
MaxOver(widths, i, acc) ==
    IF i > Len(widths) THEN acc
    ELSE MaxOver(widths, i + 1, Max(acc, widths[i]))

\* a width computation without the floor of the name column
calculateWidthsNoFloor(mm) ==
    LET cw == ClampWidth(mm.termWidth)
    IN  [mm EXCEPT !.contentWidth = cw,
                   !.colWidths = <<colWidthID, colWidthIP, colWidthState, cw - fixedWidth>>]

\* Model.calculateWidths
calculateWidths(mm) ==
    LET cw == ClampWidth(mm.termWidth)
        nameWidth == IF cw - fixedWidth < 10 THEN 10 ELSE cw - fixedWidth
    IN  [mm EXCEPT !.contentWidth = cw,
                   !.colWidths = <<colWidthID, colWidthIP, colWidthState, nameWidth>>]

\* VMModel.calculateVMWidths
calculateVMWidths(mm) ==
    LET cw == ClampWidth(mm.termWidth)
        nameWidth == IF cw - vmFixedWidth < 10 THEN 10 ELSE cw - vmFixedWidth
    IN  [mm EXCEPT !.contentWidth = cw,
                   !.colWidths = <<vmColWidthID, vmColWidthState, vmColWidthType,
                                   vmColWidthZone, nameWidth>>]

\* ASGModel.calculateWidths: no upper clamp, and widened to fit the longest name
calculateASGWidths(mm) ==
    LET w0 == mm.termWidth - 2
        w1 == IF w0 < minWidth THEN minWidth ELSE w0
        minRequiredWidth == mm.maxNameWidth + 29
    IN  [mm EXCEPT !.contentWidth = IF w1 < minRequiredWidth THEN minRequiredWidth ELSE w1]

\* LBModel / VPCModel / ProfileModel calculateWidths
calculateBoxWidth(mm) == [mm EXCEPT !.contentWidth = ClampWidth(mm.termWidth)]

\* ContextModel.calculateContextWidths
calculateContextWidths(mm) ==
    LET cw == ClampWidth(mm.termWidth)
        provW == MaxOver([i \in 1..Len(mm.items) |->
                             StringWidth(ToUpper(Provider(mm.items[i])))], 1, 3)
        credW == MaxOver([i \in 1..Len(mm.items) |-> StringWidth(Cred(mm.items[i]))], 1, 10)
        regW == MaxOver([i \in 1..Len(mm.items) |-> StringWidth(RegionText(mm.items[i]))],
                        1, 10)
        fixedW == 3 + 2 + provW + 2 + credW + 2 + regW
        nameW == IF cw - fixedW < 10 THEN 10 ELSE cw - fixedW
    IN  [mm EXCEPT !.contentWidth = cw, !.colWidths = <<nameW, provW, credW, regW>>]

\* the variant's width computation, as called from its constructor and its Update
CalcWidths(v, mm) ==
    CASE v = "instance" -> calculateWidths(mm)
      [] v = "vm" -> calculateVMWidths(mm)
      [] v = "asg" -> calculateASGWidths(mm)
      [] v = "context" -> calculateContextWidths(mm)
      [] OTHER -> calculateBoxWidth(mm)

-----------------------------------------------------------------------------
(* Model construction *)

\* the zero value of a model struct
ZeroModel ==
    [items |-> <<>>, filtered |-> <<>>, cursor |-> 0, offset |-> 0, search |-> <<>>,
     selected |-> 0, action |-> "Connect", quitting |-> FALSE, cancelled |-> FALSE,
     termWidth |-> 0, contentWidth |-> 0, colWidths |-> <<>>, maxNameWidth |-> 0,
     activeProfile |-> 0]

\* NewModel / newVMModel / NewASGModel / NewLBModel / NewVPCModel / NewProfileModel /
\* newContextModel
NewModel(v, items, active) ==
    CalcWidths(v,
        [ZeroModel EXCEPT
            !.items = items, !.filtered = items, !.termWidth = defaultTermWidth,
            !.maxNameWidth =
                IF v = "asg"
                THEN MaxOver([i \in 1..Len(items) |-> StringWidth(Name(items[i]))], 1, 30)
                ELSE 0,
            !.activeProfile = IF v \in {"profile", "context"} THEN active ELSE 0])

RECURSIVE InsertSorted(_, _)
InsertSorted(sorted, k) ==
    IF sorted = <<>> THEN <<k>>
    ELSE IF StrLess(Name(k), Name(Head(sorted))) THEN <<k>> \o sorted
    ELSE <<Head(sorted)>> \o InsertSorted(Tail(sorted), k)

RECURSIVE SortNames(_)
\* sort.Strings over the keys of the contexts map
SortNames(ids) ==
    IF ids = <<>> THEN <<>>
    ELSE InsertSorted(SortNames(SubSeq(ids, 1, Len(ids) - 1)), ids[Len(ids)])

\* index (from 0) of the first item that is the current one; 0 when there is none
RECURSIVE FirstCurrent(_, _, _)
FirstCurrent(items, cur, i) ==
    IF i > Len(items) THEN 0
    ELSE IF items[i] = cur THEN i - 1
    ELSE FirstCurrent(items, cur, i + 1)

\* the model a Select function hands to tea.NewProgram
InitialModel(v, items, cur) ==
    IF v = "context"
    THEN LET sorted == SortNames(items)
         IN  [NewModel(v, sorted, cur) EXCEPT !.cursor = FirstCurrent(sorted, cur, 1)]
    ELSE NewModel(v, items, cur)

-----------------------------------------------------------------------------
(* Update *)

\* terminal widths a tea.WindowSizeMsg reports
Widths == {40, 64, 130}

\* the runes one tea.KeyRunes message carries: one letter, one digit, a paste of
\* two characters, and one two-byte character (e with acute accent)
RuneInputs == {<<"W">>, <<"3">>, <<"W", "3">>, <<"eacute">>}

\* string(msg.Runes): the UTF-8 bytes of the runes; the search string is a Go
\* string, a sequence of bytes
RECURSIVE UTF8(_)
UTF8(runes) ==
    IF runes = <<>> THEN <<>>
    ELSE (IF Head(runes) = "eacute" THEN <<"xC3", "xA9">> ELSE <<Head(runes)>>)
             \o UTF8(Tail(runes))

KeyTypes ==
    {"CtrlC", "Esc", "Enter", "Up", "Down", "CtrlS", "CtrlX", "Backspace", "Tab"}

Msgs ==
    [type : {"WindowSize"}, width : Widths]
        \cup [type : KeyTypes]
        \cup [type : {"Runes"}, runes : RuneInputs]

\* a resize that adds the reported width to the stored one
OnWindowSizeAdd(v, mm, width) == CalcWidths(v, [mm EXCEPT !.termWidth = mm.termWidth + width])

\* a resize that also sends the cursor back to the top
OnWindowSizeHome(v, mm, width) ==
    CalcWidths(v, [mm EXCEPT !.termWidth = width, !.cursor = 0, !.offset = 0])

\* case tea.WindowSizeMsg
OnWindowSize(v, mm, width) == CalcWidths(v, [mm EXCEPT !.termWidth = width])

\* a cancel that asks to quit without recording the cancellation
OnCancelUnmarked(mm) == [mm EXCEPT !.quitting = TRUE]

\* case tea.KeyCtrlC, tea.KeyEsc
OnCancel(mm) == [mm EXCEPT !.quitting = TRUE, !.cancelled = TRUE]

\* a commit that indexes the unfiltered list with the cursor
OnCommitFromItems(v, mm, tag) ==
    [mm EXCEPT !.selected = mm.items[mm.cursor + 1],
               !.action = IF v = "vm" THEN tag ELSE mm.action,
               !.quitting = TRUE]

\* case tea.KeyEnter / tea.KeyCtrlS / tea.KeyCtrlX with a non-empty filtered list
OnCommit(v, mm, tag) ==
    [mm EXCEPT !.selected = mm.filtered[mm.cursor + 1],
               !.action = IF v = "vm" THEN tag ELSE mm.action,
               !.quitting = TRUE]

\* case tea.KeyUp
OnUp(mm) ==
    IF mm.cursor > 0
    THEN [mm EXCEPT !.cursor = mm.cursor - 1,
                    !.offset = IF mm.cursor - 1 < mm.offset THEN mm.cursor - 1 ELSE mm.offset]
    ELSE mm

\* a move down that wraps from the last row to the first
OnDownWrap(v, mm) ==
    IF mm.cursor < Len(mm.filtered) - 1
    THEN [mm EXCEPT !.cursor = mm.cursor + 1,
                    !.offset = IF mm.cursor + 1 >= mm.offset + ListHeight(v)
                               THEN mm.cursor + 1 - ListHeight(v) + 1
                               ELSE mm.offset]
    ELSE [mm EXCEPT !.cursor = 0, !.offset = 0]

\* a move down that scrolls one row too far
OnDownScrollFar(v, mm) ==
    IF mm.cursor < Len(mm.filtered) - 1
    THEN [mm EXCEPT !.cursor = mm.cursor + 1,
                    !.offset = IF mm.cursor + 1 >= mm.offset + ListHeight(v)
                               THEN mm.cursor + 1
                               ELSE mm.offset]
    ELSE mm

\* case tea.KeyDown
OnDown(v, mm) ==
    IF mm.cursor < Len(mm.filtered) - 1
    THEN [mm EXCEPT !.cursor = mm.cursor + 1,
                    !.offset = IF mm.cursor + 1 >= mm.offset + ListHeight(v)
                               THEN mm.cursor + 1 - ListHeight(v) + 1
                               ELSE mm.offset]
    ELSE mm

\* a backspace that runs the filter whether or not the search string is empty
OnBackspaceAlwaysFilters(v, mm) ==
    filterItems(v, [mm EXCEPT !.search = SubSeq(mm.search, 1, Len(mm.search) - 1)])

\* case tea.KeyBackspace: drops the last byte of the search string
OnBackspace(v, mm) ==
    IF Len(mm.search) > 0
    THEN filterItems(v, [mm EXCEPT !.search = SubSeq(mm.search, 1, Len(mm.search) - 1)])
    ELSE mm

\* a character input that leaves the scroll offset where it was
OnRunesKeepOffset(v, mm, runes) ==
    [filterItems(v, [mm EXCEPT !.search = mm.search \o UTF8(runes)]) EXCEPT !.offset = mm.offset]

\* case tea.KeyRunes
OnRunes(v, mm, runes) == filterItems(v, [mm EXCEPT !.search = mm.search \o UTF8(runes)])

\* a VM selector that tags every commit as a connect
ActionOfAlwaysConnect(key) == "Connect"

\* the action tag a committing key sets in the VM selector
ActionOf(key) ==
    CASE key = "CtrlS" -> "Start"
      [] key = "CtrlX" -> "Stop"
      [] OTHER -> "Connect"

\* Update: the new model and the command returned ("Quit" for tea.Quit, "nil" for none)
Update(v, mm, msg) ==
    CASE msg.type = "WindowSize" ->
            [m |-> OnWindowSize(v, mm, msg.width), cmd |-> "nil"]
      [] msg.type \in {"CtrlC", "Esc"} ->
            [m |-> OnCancel(mm), cmd |-> "Quit"]
      [] msg.type = "Enter" \/ (v = "vm" /\ msg.type \in {"CtrlS", "CtrlX"}) ->
            IF Len(mm.filtered) > 0
            THEN [m |-> OnCommit(v, mm, ActionOf(msg.type)), cmd |-> "Quit"]
            ELSE [m |-> mm, cmd |-> "nil"]
      [] msg.type = "Up" -> [m |-> OnUp(mm), cmd |-> "nil"]
      [] msg.type = "Down" -> [m |-> OnDown(v, mm), cmd |-> "nil"]
      [] msg.type = "Backspace" -> [m |-> OnBackspace(v, mm), cmd |-> "nil"]
      [] msg.type = "Runes" -> [m |-> OnRunes(v, mm, msg.runes), cmd |-> "nil"]
      [] OTHER -> [m |-> mm, cmd |-> "nil"]

-----------------------------------------------------------------------------
(* The Select functions and the program loop *)

NoQuit == [kind |-> "none", key |-> "none", item |-> 0, action |-> "Connect"]

NoReturn == [err |-> "pending", item |-> 0, action |-> "Connect"]

\* a return that looks at the selection before the cancellation
SelectReturnSelectedFirst(mm) ==
    IF mm.selected # 0
    THEN [err |-> "nil", item |-> mm.selected, action |-> mm.action]
    ELSE IF mm.cancelled
    THEN [err |-> "selection cancelled", item |-> 0, action |-> "Connect"]
    ELSE [err |-> "nil", item |-> mm.selected, action |-> mm.action]

\* a return that reports a cancellation as a plain nil result
SelectReturnCancelSilent(mm) ==
    IF mm.cancelled
    THEN [err |-> "nil", item |-> 0, action |-> "Connect"]
    ELSE [err |-> "nil", item |-> mm.selected, action |-> mm.action]

\* the tail of a Select function, after p.Run returned finalModel without error
SelectReturn(mm) ==
    IF mm.cancelled
    THEN [err |-> "selection cancelled", item |-> 0, action |-> "Connect"]
    ELSE [err |-> "nil", item |-> mm.selected, action |-> mm.action]

\* a Select function without the emptiness check
RejectsNothing(items) == FALSE

\* whether a Select function rejects its input before building a model
RejectsInput(items) == Len(items) = 0

\* the item lists a Select function is called with: the empty list, a short list, a
\* list longer than every list area, and a list that repeats a resource
ItemLists == {[i \in 1..n |-> i] : n \in {0, 2, MaxItems}} \cup {<<1, 1, 3>>}

\* the names the current context / active profile is drawn from (0: none of the items)
CurrentChoices == {0, MaxItems - 1}

Init ==
    /\ variant \in Variants
    /\ input \in ItemLists
    /\ variant = "context" => \A i, j \in 1..Len(input) : input[i] = input[j] => i = j
    /\ current \in IF variant \in {"profile", "context"} THEN CurrentChoices ELSE {0}
    /\ m = ZeroModel
    /\ pc = "idle"
    /\ quitPending = FALSE
    /\ late = 0
    /\ programRuns = FALSE
    /\ firstQuit = NoQuit
    /\ ret = NoReturn
    /\ cmdErr = "pending"
    /\ terminal = "cooked"
    /\ frame = ZeroModel

\* if len(items) == 0 { return nil, fmt.Errorf("no ... available") }
SelectEmpty ==
    /\ pc = "idle"
    /\ RejectsInput(input)
    /\ pc' = "returned"
    /\ ret' = [err |-> "none available", item |-> 0, action |-> "Connect"]
    /\ UNCHANGED <<variant, input, current, m, quitPending, late, programRuns, firstQuit,
                   cmdErr, terminal, frame>>

\* m := NewModel(items); p := tea.NewProgram(m); p.Run() starts, takes the terminal
\* and renders the first frame from the initial model
SelectStart ==
    /\ pc = "idle"
    /\ ~RejectsInput(input)
    /\ m' = InitialModel(variant, input, current)
    /\ frame' = m'
    /\ pc' = "running"
    /\ programRuns' = TRUE
    /\ terminal' = "raw"
    /\ UNCHANGED <<variant, input, current, quitPending, late, firstQuit, ret, cmdErr>>

\* an event loop that renders the frame before it hands the message to Update
DispatchStaleFrame(msg) ==
    /\ pc = "running"
    /\ quitPending => late < MaxLate
    /\ msg.type = "Runes" => Len(m.search) + Len(UTF8(msg.runes)) <= MaxQuery
    /\ \E r \in {Update(variant, m, msg)} :
           /\ m' = r.m
           /\ frame' = m
           /\ quitPending' = (quitPending \/ r.cmd = "Quit")
           /\ firstQuit' =
                  IF quitPending \/ r.cmd # "Quit" THEN firstQuit
                  ELSE IF msg.type \in {"CtrlC", "Esc"} THEN [NoQuit EXCEPT !.kind = "cancel"]
                  ELSE [kind |-> "commit", key |-> msg.type, item |-> r.m.selected,
                        action |-> r.m.action]
    /\ late' = IF quitPending THEN late + 1 ELSE late
    /\ UNCHANGED <<variant, input, current, pc, programRuns, ret, cmdErr, terminal>>

\* one turn of the program's event loop: it takes one message, hands it to Update,
\* and renders the frame from the model Update returned; a returned tea.Quit is run
\* asynchronously, so messages already queued still reach Update before the QuitMsg
Dispatch(msg) ==
    /\ pc = "running"
    /\ quitPending => late < MaxLate
    /\ msg.type = "Runes" => Len(m.search) + Len(UTF8(msg.runes)) <= MaxQuery
    /\ \E r \in {Update(variant, m, msg)} :
           /\ m' = r.m
           /\ frame' = r.m
           /\ quitPending' = (quitPending \/ r.cmd = "Quit")
           /\ firstQuit' =
                  IF quitPending \/ r.cmd # "Quit" THEN firstQuit
                  ELSE IF msg.type \in {"CtrlC", "Esc"} THEN [NoQuit EXCEPT !.kind = "cancel"]
                  ELSE [kind |-> "commit", key |-> msg.type, item |-> r.m.selected,
                        action |-> r.m.action]
    /\ late' = IF quitPending THEN late + 1 ELSE late
    /\ UNCHANGED <<variant, input, current, pc, programRuns, ret, cmdErr, terminal>>

Resize == \E w \in Widths : Dispatch([type |-> "WindowSize", width |-> w])

KeyCancel == \E k \in {"CtrlC", "Esc"} : Dispatch([type |-> k])

KeyEnter == Dispatch([type |-> "Enter"])

KeyUp == Dispatch([type |-> "Up"])

KeyDown == Dispatch([type |-> "Down"])

KeyCtrlS == Dispatch([type |-> "CtrlS"])

KeyCtrlX == Dispatch([type |-> "CtrlX"])

KeyBackspace == Dispatch([type |-> "Backspace"])

KeyRunes == \E r \in RuneInputs : Dispatch([type |-> "Runes", runes |-> r])

KeyOther == Dispatch([type |-> "Tab"])

\* the QuitMsg reaches the loop: p.Run restores the terminal and returns the final
\* model, and Select returns
QuitMsg ==
    /\ pc = "running"
    /\ quitPending
    /\ pc' = "returned"
    /\ ret' = SelectReturn(m)
    /\ m' = ZeroModel
    /\ frame' = ZeroModel
    /\ terminal' = "cooked"
    /\ UNCHANGED <<variant, input, current, quitPending, late, programRuns, firstQuit,
                   cmdErr>>

\* the program is told to quit from outside (bubbletea turns a SIGTERM into a
\* QuitMsg): p.Run restores the terminal and returns the model as it stands,
\* without error
ExternalQuit ==
    /\ pc = "running"
    /\ pc' = "returned"
    /\ ret' = SelectReturn(m)
    /\ m' = ZeroModel
    /\ frame' = ZeroModel
    /\ terminal' = "cooked"
    /\ UNCHANGED <<variant, input, current, quitPending, late, programRuns, firstQuit,
                   cmdErr>>

\* an error return that leaves without the program having restored the terminal
RunErrorTerminalHeld ==
    /\ pc = "running"
    /\ pc' = "returned"
    /\ ret' = [err |-> "error running selector", item |-> 0, action |-> "Connect"]
    /\ m' = ZeroModel
    /\ frame' = ZeroModel
    /\ UNCHANGED <<variant, input, current, quitPending, late, programRuns, firstQuit,
                   cmdErr, terminal>>

\* p.Run returns an error: return nil, fmt.Errorf("error running selector: %w", err)
RunError ==
    /\ pc = "running"
    /\ pc' = "returned"
    /\ ret' = [err |-> "error running selector", item |-> 0, action |-> "Connect"]
    /\ m' = ZeroModel
    /\ frame' = ZeroModel
    /\ terminal' = "cooked"
    /\ UNCHANGED <<variant, input, current, quitPending, late, programRuns, firstQuit,
                   cmdErr>>

\* the commands of package cmd that call a Select function; SelectProfile and
\* SelectContext have no caller
HasCaller(v) == v \in {"instance", "vm", "asg", "lb", "vpc"}

\* the callers that return before calling Select when the list is empty
CallerChecksEmpty(v) == v \in {"instance", "vm", "asg"}

\* what the calling command returns after Select returned r: runVMList returns nil on
\* every error; the other callers return the error; all of them dereference the
\* selected item when the error is nil
CallerResult(v, r) ==
    IF r.err # "nil" THEN (IF v = "vm" THEN "nil" ELSE r.err)
    ELSE IF r.item = 0 THEN "panic: nil pointer dereference"
    ELSE "nil"

\* the calling command handles what Select returned and returns to Execute, which
\* prints a non-nil error and exits with status 1
CallerReturn ==
    /\ pc = "returned"
    /\ HasCaller(variant)
    /\ Len(input) = 0 => ~CallerChecksEmpty(variant)
    /\ pc' = "done"
    /\ cmdErr' = CallerResult(variant, ret)
    /\ UNCHANGED <<variant, input, current, m, quitPending, late, programRuns, firstQuit,
                   ret, terminal, frame>>

Next ==
    \/ SelectEmpty
    \/ SelectStart
    \/ Resize
    \/ KeyCancel
    \/ KeyEnter
    \/ KeyUp
    \/ KeyDown
    \/ KeyCtrlS
    \/ KeyCtrlX
    \/ KeyBackspace
    \/ KeyRunes
    \/ KeyOther
    \/ QuitMsg
    \/ ExternalQuit
    \/ RunError
    \/ CallerReturn

Spec == Init /\ [][Next]_vars

\* the command tea.Quit runs in its own goroutine and sends the QuitMsg to the
\* program's message channel, which the event loop keeps receiving from: a QuitMsg
\* in flight is eventually processed
FairSpec == Spec /\ WF_vars(QuitMsg)

-----------------------------------------------------------------------------
(* List rows: the plain text a row renderer writes between the two border  *)
(* characters (styles add no width).                                       *)

\* strings.Repeat(" ", w - plainWidth) when plainWidth < w
PadFill(plainWidth, w) == IF plainWidth < w THEN Repeat(" ", w - plainWidth) ELSE <<>>

\* " > " on the cursor row, "   " elsewhere
CursorMark(mm, idx) == IF idx = mm.cursor THEN <<" ", ">", " ">> ELSE <<" ", " ", " ">>

\* formatStatePlain: the state with its indicator, padded to width
formatStatePlain(state, width) ==
    LET running == <<"r", "u", "n", "n", "i", "n", "g">>
        indicator == IF state = running THEN "@" ELSE "o"
    IN  padRight(<<indicator, " ">> \o state, width)

\* Model.renderInstanceRow
renderInstanceRow(mm, idx) ==
    LET k == mm.filtered[idx + 1]
        plainWidth == 3 + (mm.colWidths[1] + 2) + (mm.colWidths[2] + 2)
                        + (mm.colWidths[3] + 2) + mm.colWidths[4]
    IN  CursorMark(mm, idx)
            \o padRight(ID(k), mm.colWidths[1]) \o <<" ", " ">>
            \o padRight(PrivateIP(k), mm.colWidths[2]) \o <<" ", " ">>
            \o formatStatePlain(State(k), mm.colWidths[3]) \o <<" ", " ">>
            \o padRight(Name(k), mm.colWidths[4])
            \o PadFill(plainWidth, mm.contentWidth)

\* VMModel.renderVMRow
renderVMRow(mm, idx) ==
    LET k == mm.filtered[idx + 1]
        plainWidth == 3 + (mm.colWidths[1] + 2) + (mm.colWidths[2] + 2)
                        + (mm.colWidths[3] + 2) + (mm.colWidths[4] + 2) + mm.colWidths[5]
    IN  CursorMark(mm, idx)
            \o padRight(ID(k), mm.colWidths[1]) \o <<" ", " ">>
            \o formatStatePlain(State(k), mm.colWidths[2]) \o <<" ", " ">>
            \o padRight(Type(k), mm.colWidths[3]) \o <<" ", " ">>
            \o padRight(Zone(k), mm.colWidths[4]) \o <<" ", " ">>
            \o padRight(Name(k), mm.colWidths[5])
            \o PadFill(plainWidth, mm.contentWidth)

\* ASGModel.renderASGRow
renderASGRow(mm, idx) ==
    LET k == mm.filtered[idx + 1]
        capText == Itoa(DesiredCapacity(k)) \o <<"/">> \o Itoa(MinSize(k))
                       \o <<"/">> \o Itoa(MaxSize(k))
        countText == Itoa(InstanceCount(k)) \o <<" ", "r", "u", "n", "n", "i", "n", "g">>
        plainWidth == 3 + (mm.maxNameWidth + 2) + (asgColWidthCap + 2) + asgColWidthCount
    IN  CursorMark(mm, idx)
            \o padRight(Name(k), mm.maxNameWidth) \o <<" ", " ">>
            \o padRight(capText, asgColWidthCap) \o <<" ", " ">>
            \o padRight(countText, asgColWidthCount)
            \o PadFill(plainWidth, mm.contentWidth)

\* LBModel.renderLBRow
renderLBRow(mm, idx) ==
    LET k == mm.filtered[idx + 1]
        plainWidth == 3 + (30 + 2) + (12 + 2) + 10
    IN  CursorMark(mm, idx)
            \o padRight(Name(k), 30) \o <<" ", " ">>
            \o padRight(Type(k), 12) \o <<" ", " ">>
            \o padRight(State(k), 10)
            \o PadFill(plainWidth, mm.contentWidth)

\* VPCModel.renderVPCRow
renderVPCRow(mm, idx) ==
    LET k == mm.filtered[idx + 1]
        fixed == 3 + (24 + 2) + (18 + 2)
        nameWidth == IF mm.contentWidth - fixed < 10 THEN 10 ELSE mm.contentWidth - fixed
    IN  CursorMark(mm, idx)
            \o padRight(ID(k), 24) \o <<" ", " ">>
            \o padRight(CIDR(k), 18) \o <<" ", " ">>
            \o padRight(Name(k), nameWidth)
            \o PadFill(fixed + nameWidth, mm.contentWidth)

\* ProfileModel.renderProfileRow
renderProfileRow(mm, idx) ==
    LET k == mm.filtered[idx + 1]
        mark == IF k = mm.activeProfile THEN <<" ", "@", " ">>
                ELSE IF idx = mm.cursor THEN <<" ", ">", " ">>
                ELSE <<" ", " ", " ">>
        plainWidth == 3 + (30 + 2) + 20
    IN  mark
            \o padRight(Name(k), 30) \o <<" ", " ">>
            \o padRight(RegionText(k), 20)
            \o PadFill(plainWidth, mm.contentWidth)

\* ContextModel.renderContextRow
renderContextRow(mm, idx) ==
    LET k == mm.filtered[idx + 1]
        mark == <<" ", IF idx = mm.cursor THEN ">" ELSE " ",
                  IF k = mm.activeProfile THEN "*" ELSE " ">>
        plainWidth == 3 + (mm.colWidths[1] + 2) + (mm.colWidths[2] + 2)
                        + (mm.colWidths[3] + 2) + mm.colWidths[4]
    IN  mark
            \o padRight(Name(k), mm.colWidths[1]) \o <<" ", " ">>
            \o padRight(ToUpper(Provider(k)), mm.colWidths[2]) \o <<" ", " ">>
            \o padRight(Cred(k), mm.colWidths[3]) \o <<" ", " ">>
            \o padRight(RegionText(k), mm.colWidths[4])
            \o PadFill(plainWidth, mm.contentWidth)

\* the variant's row renderer
RenderRow(v, mm, idx) ==
    CASE v = "instance" -> renderInstanceRow(mm, idx)
      [] v = "vm" -> renderVMRow(mm, idx)
      [] v = "asg" -> renderASGRow(mm, idx)
      [] v = "lb" -> renderLBRow(mm, idx)
      [] v = "vpc" -> renderVPCRow(mm, idx)
      [] v = "profile" -> renderProfileRow(mm, idx)
      [] v = "context" -> renderContextRow(mm, idx)

\* View: the indices of the rows of filtered that the list area renders
VisibleRows(v, mm) ==
    LET visibleEnd == IF mm.offset + ListHeight(v) > Len(mm.filtered)
                      THEN Len(mm.filtered)
                      ELSE mm.offset + ListHeight(v)
    IN  mm.offset .. (visibleEnd - 1)

-----------------------------------------------------------------------------
(* The list area and the status line of a frame *)

\* View: the index after the last item row of the list area
VisibleEnd(v, mm) ==
    IF mm.offset + ListHeight(v) > Len(mm.filtered)
    THEN Len(mm.filtered)
    ELSE mm.offset + ListHeight(v)

\* View: the number of item rows, one line each (for i := m.offset; i < visibleEnd)
ItemRowCount(v, mm) == Max(VisibleEnd(v, mm) - mm.offset, 0)

\* a fill loop that starts at the offset
FillStartAtOffset(v, mm) == mm.offset

\* View: where the loop that writes the blank lines starts: at visibleEnd in the VM
\* and context selectors, at len(m.filtered) in the others
FillStart(v, mm) == IF v \in {"vm", "context"} THEN VisibleEnd(v, mm) ELSE Len(mm.filtered)

\* View: the number of blank lines (for i := start; i < m.offset+listHeight)
BlankRowCount(v, mm) == Max(mm.offset + ListHeight(v) - FillStart(v, mm), 0)

\* the noun of the count in the status line
CountNoun(v) ==
    CASE v = "instance" -> <<"i", "n", "s", "t", "a", "n", "c", "e", "s">>
      [] v = "vm" -> <<"V", "M", "s">>
      [] v = "asg" -> <<"A", "S", "G", "s">>
      [] v = "lb" -> <<"l", "o", "a", "d", " ", "b", "a", "l", "a", "n", "c", "e", "r",
                       "s">>
      [] v = "vpc" -> <<"V", "P", "C", "s">>
      [] v = "profile" -> <<"p", "r", "o", "f", "i", "l", "e", "s">>
      [] v = "context" -> <<"c", "o", "n", "t", "e", "x", "t", "s">>

\* hintsPlain of the variant's status bar
HintsPlain(v) ==
    IF v = "vm" THEN <<"[", "E", "n", "t", "e", "r", ":", "c", "o", "n", "n", "e", "c",
                       "t", "]", " ", "[", "^", "S", ":", "s", "t", "a", "r", "t", "]",
                       " ", "[", "^", "X", ":", "s", "t", "o", "p", "]", " ", "[", "E",
                       "s", "c", ":", "q", "u", "i", "t", "]">>
    ELSE IF v = "context" THEN <<"[", "E", "n", "t", "e", "r", ":", "s", "e", "l", "e",
                                 "c", "t", "]", " ", "[", "E", "s", "c", ":", "q", "u",
                                 "i", "t", "]">>
    ELSE <<"[", "E", "n", "t", "e", "r", ":", "s", "e", "l", "e", "c", "t", "]", " ",
           "[", "E", "s", "c", ":", "c", "a", "n", "c", "e", "l", "]">>

\* a status bar laid out on the inner width of the box
renderStatusBarInner(v, mm) ==
    LET w == mm.contentWidth
        countInfo == <<" ", " ">> \o Itoa(Len(mm.filtered)) \o <<"/">> \o Itoa(Len(mm.items))
                         \o <<" ">> \o CountNoun(v)
        padding == w - StringWidth(countInfo) - StringWidth(HintsPlain(v))
    IN  countInfo \o (IF padding > 0 THEN Repeat(" ", padding) ELSE <<>>) \o HintsPlain(v)

\* renderStatusBar / renderVMStatusBar / renderContextStatusBar: the plain text of the
\* status line
renderStatusBar(v, mm) ==
    LET w == mm.contentWidth + 2
        countInfo == <<" ", " ">> \o Itoa(Len(mm.filtered)) \o <<"/">> \o Itoa(Len(mm.items))
                         \o <<" ">> \o CountNoun(v)
        padding == w - StringWidth(countInfo) - StringWidth(HintsPlain(v))
    IN  countInfo \o (IF padding > 0 THEN Repeat(" ", padding) ELSE <<>>) \o HintsPlain(v)

-----------------------------------------------------------------------------
(* Detail panel: the lines the variant's details renderer writes.  The     *)
(* profile selector has no detail panel.                                   *)

HasDetailsPanel(v) == v # "profile"

\* the number of entries of the details slice, one line each
DetailRows(v) ==
    CASE v = "instance" -> 9
      [] v = "vm" -> 10
      [] v = "asg" -> 7
      [] v = "lb" -> 7
      [] v = "vpc" -> 6
      [] v = "context" -> 4

\* the bound of the loop that writes blank lines under the "not found" line
EmptyPadLines(v) ==
    CASE v = "instance" -> 8
      [] v = "vm" -> 10
      [] v = "asg" -> 6
      [] v = "lb" -> 5
      [] v = "vpc" -> 4
      [] v = "context" -> 4

\* the VM and context renderers return at the end of the empty branch; the others
\* fall through to the trailing blank line
EmptyBranchReturns(v) == v \in {"vm", "context"}

\* the number of lines renderDetailsPanel writes: header, underline, then the
\* placeholder with its blank lines or one line per detail, then the trailing line
DetailsPanelHeight(v, mm) ==
    IF Len(mm.filtered) = 0
    THEN 1 + 1 + 1 + EmptyPadLines(v) + (IF EmptyBranchReturns(v) THEN 0 ELSE 1)
    ELSE 1 + 1 + DetailRows(v) + 1

detailLabelWidth == 12
lbDetailLabelWidth == 12
vpcDetailLabelWidth == 12
asgDetailWidth == 18

\* the width of the label column of the variant's detail lines
DetailLabelWidth(v) ==
    CASE v = "asg" -> asgDetailWidth
      [] v = "lb" -> lbDetailLabelWidth
      [] v = "vpc" -> vpcDetailLabelWidth
      [] OTHER -> detailLabelWidth

formatOptional(str) == IF str = <<>> THEN <<"-">> ELSE str

formatBool(b) == IF b THEN <<"Y", "e", "s">> ELSE <<"N", "o">>

RECURSIVE Join(_, _)
\* strings.Join(elems, sep)
Join(elems, sep) ==
    IF elems = <<>> THEN <<>>
    ELSE IF Len(elems) = 1 THEN elems[1]
    ELSE elems[1] \o sep \o Join(Tail(elems), sep)

\* stateDisplay of the VM detail panel: the indicator, a space and the state
StateDisplay(k) ==
    LET running == <<"r", "u", "n", "n", "i", "n", "g">>
    IN  <<IF State(k) = running THEN "@" ELSE "o", " ">> \o State(k)

\* the details slice of the variant's panel for resource k: label and value of each line
DetailFields(v, k) ==
    CASE v = "instance" ->
            <<<<<<"I", "D", ":">>, ID(k)>>,
              <<<<"N", "a", "m", "e", ":">>, Name(k)>>,
              <<<<"P", "r", "i", "v", "a", "t", "e", " ", "I", "P", ":">>, PrivateIP(k)>>,
              <<<<"P", "u", "b", "l", "i", "c", " ", "I", "P", ":">>,
                formatOptional(PublicIP(k))>>,
              <<<<"S", "t", "a", "t", "e", ":">>, State(k)>>,
              <<<<"T", "y", "p", "e", ":">>, Type(k)>>,
              <<<<"A", "Z", ":">>, Zone(k)>>,
              <<<<"A", "S", "G", ":">>, formatOptional(ASG(k))>>,
              <<<<"L", "a", "u", "n", "c", "h", ":">>, LaunchText(k)>>>>
      [] v = "vm" ->
            <<<<<<"I", "D", ":">>, ID(k)>>,
              <<<<"N", "a", "m", "e", ":">>, Name(k)>>,
              <<<<"S", "t", "a", "t", "e", ":">>, StateDisplay(k)>>,
              <<<<"T", "y", "p", "e", ":">>, Type(k)>>,
              <<<<"Z", "o", "n", "e", ":">>, Zone(k)>>,
              <<<<"P", "r", "i", "v", "a", "t", "e", " ", "I", "P", ":">>, PrivateIP(k)>>,
              <<<<"P", "u", "b", "l", "i", "c", " ", "I", "P", ":">>,
                formatOptional(PublicIP(k))>>,
              <<IF Provider(k) = <<"g", "c", "p">> THEN <<"I", "G", ":">>
                ELSE <<"A", "S", "G", ":">>, formatOptional(ASG(k))>>,
              <<<<"L", "a", "u", "n", "c", "h", "e", "d", ":">>, LaunchText(k)>>,
              <<<<"P", "r", "o", "v", "i", "d", "e", "r", ":">>, Provider(k)>>>>
      [] v = "asg" ->
            <<<<<<"N", "a", "m", "e", ":">>, Name(k)>>,
              <<<<"L", "a", "u", "n", "c", "h", " ", "T", "e", "m", "p", "l", "a", "t", "e", ":">>,
                formatOptional(LaunchTemplate(k))>>,
              <<<<"D", "e", "s", "i", "r", "e", "d", "/", "M", "i", "n", "/", "M", "a", "x", ":">>,
                Itoa(DesiredCapacity(k)) \o <<" ", "/", " ">> \o Itoa(MinSize(k))
                    \o <<" ", "/", " ">> \o Itoa(MaxSize(k))>>,
              <<<<"R", "u", "n", "n", "i", "n", "g", ":">>,
                Itoa(InstanceCount(k)) \o <<" ", "i", "n", "s", "t", "a", "n", "c", "e", "s">>>>,
              <<<<"H", "e", "a", "l", "t", "h", "y", ":">>,
                Itoa(HealthyCount(k)) \o <<" ", "/", " ">> \o Itoa(InstanceCount(k))>>,
              <<<<"S", "t", "a", "t", "u", "s", ":">>, Status(k)>>,
              <<<<"A", "Z", "s", ":">>, Join(AZs(k), <<",", " ">>)>>>>
      [] v = "lb" ->
            <<<<<<"N", "a", "m", "e", ":">>, Name(k)>>,
              <<<<"T", "y", "p", "e", ":">>, Type(k)>>,
              <<<<"S", "c", "h", "e", "m", "e", ":">>, Scheme(k)>>,
              <<<<"S", "t", "a", "t", "e", ":">>, State(k)>>,
              <<<<"D", "N", "S", ":">>, DNSName(k)>>,
              <<<<"V", "P", "C", ":">>, VPCID(k)>>,
              <<<<"A", "Z", "s", ":">>, Join(AZs(k), <<",", " ">>)>>>>
      [] v = "vpc" ->
            <<<<<<"I", "D", ":">>, ID(k)>>,
              <<<<"N", "a", "m", "e", ":">>, Name(k)>>,
              <<<<"C", "I", "D", "R", ":">>, CIDR(k)>>,
              <<<<"S", "t", "a", "t", "e", ":">>, State(k)>>,
              <<<<"D", "e", "f", "a", "u", "l", "t", ":">>, formatBool(IsDefault(k))>>,
              <<<<"O", "w", "n", "e", "r", ":">>, OwnerID(k)>>>>
      [] v = "context" ->
            <<<<<<"C", "o", "n", "t", "e", "x", "t", ":">>, Name(k)>>,
              <<<<"P", "r", "o", "v", "i", "d", "e", "r", ":">>, ToUpper(Provider(k))>>,
              <<IF Project(k) # <<>> THEN <<"P", "r", "o", "j", "e", "c", "t", ":">>
                ELSE <<"P", "r", "o", "f", "i", "l", "e", ":">>, Cred(k)>>,
              <<<<"R", "e", "g", "i", "o", "n", ":">>, RegionText(k)>>>>

\* whether the variant's detail loop cuts a value that does not fit; the ASG panel
\* shows the full value
TruncatesDetailValues(v) == v # "asg"

\* the body of the loop over details: the plain text of one detail line
renderDetailLine(v, w, d) ==
    LET lw == DetailLabelWidth(v)
        labelText == padRight(d[1], lw)
        maxValueWidth == w - 1 - lw
        valueText == IF TruncatesDetailValues(v) /\ StringWidth(d[2]) > maxValueWidth
                     THEN Truncate(d[2], maxValueWidth, Ellipsis)
                     ELSE d[2]
        plainWidth == 1 + lw + StringWidth(valueText)
    IN  <<" ">> \o labelText \o valueText \o PadFill(plainWidth, w)

\* the header of the variant's panel
DetailsTitle(v) ==
    CASE v = "instance" -> <<" ", "I", "n", "s", "t", "a", "n", "c",
            "e", " ", "D", "e", "t", "a", "i", "l", "s">>
      [] v = "vm" -> <<" ", "V", "M", " ", "D", "e", "t", "a", "i", "l", "s">>
      [] v = "asg" -> <<" ", "A", "S", "G", " ", "D",
            "e", "t", "a", "i", "l", "s">>
      [] v = "lb" -> <<" ", "L", "o", "a", "d", " ", "B", "a", "l", "a", "n",
            "c", "e", "r", " ", "D", "e", "t", "a", "i", "l", "s">>
      [] v = "vpc" -> <<" ", "V", "P", "C", " ", "D",
            "e", "t", "a", "i", "l", "s">>
      [] v = "context" -> <<" ", "C", "o", "n", "t", "e", "x", "t",
            " ", "D", "e", "t", "a", "i", "l", "s">>

\* the placeholder of the variant's panel when filtered is empty
NotFoundText(v) ==
    CASE v = "instance" -> <<" ", "N", "o", " ", "i", "n", "s", "t", "a",
            "n", "c", "e", "s", " ", "f", "o", "u", "n", "d">>
      [] v = "vm" -> <<" ", "N", "o", " ", "V", "M",
            "s", " ", "f", "o", "u", "n", "d">>
      [] v = "asg" -> <<" ", "N", "o", " ", "A", "S", "G",
            "s", " ", "f", "o", "u", "n", "d">>
      [] v = "lb" -> <<" ", "N", "o", " ", "l", "o", "a", "d", " ", "b", "a", "l",
            "a", "n", "c", "e", "r", "s", " ", "f", "o", "u", "n", "d">>
      [] v = "vpc" -> <<" ", "N", "o", " ", "V", "P", "C",
            "s", " ", "f", "o", "u", "n", "d">>
      [] v = "context" -> <<" ", "N", "o", " ", "c", "o", "n", "t", "e",
            "x", "t", "s", " ", "f", "o", "u", "n", "d">>

\* the resource the detail panel shows: m.filtered[m.cursor]
DetailsItem(mm) == mm.filtered[mm.cursor + 1]

\* renderDetailsPanel / renderVMDetailsPanel / renderContextDetailsPanel: the plain
\* text of the panel's lines between the borders
renderDetailsPanel(v, mm) ==
    LET w == mm.contentWidth
        blank == Repeat(" ", w)
        head == <<padToWidth(DetailsTitle(v), w),
                  padToWidth(<<" ">> \o Repeat("-", 20), w)>>
        details == DetailFields(v, DetailsItem(mm))
    IN  IF Len(mm.filtered) = 0
        THEN head \o <<padToWidth(NotFoundText(v), w)>>
                 \o [i \in 1..EmptyPadLines(v) |-> blank]
                 \o (IF EmptyBranchReturns(v) THEN <<>> ELSE <<blank>>)
        ELSE head \o [i \in 1..Len(details) |-> renderDetailLine(v, w, details[i])]
                 \o <<blank>>

-----------------------------------------------------------------------------
(* View: the frame as the sequence of its lines in plain text (styles add  *)
(* no width); "|", "=", "+" stand for the box-drawing characters.  The     *)
(* empty string is the empty sequence of lines.                            *)

\* the title line of the profile selector
ProfileTitle ==
    <<" ", "S", "e", "l", "e", "c", "t", " ", "A", "W", "S", " ", "P", "r", "o", "f", "i", "l", "e">>

\* the lines View writes when the model is not quitting
ViewLines(v, mm) ==
    LET w == mm.contentWidth
        boxed(str) == <<"|">> \o str \o <<"|">>
        rule == <<"+">> \o Repeat("=", w) \o <<"+">>
        blank == boxed(Repeat(" ", w))
        searchLine == <<" ", ">", " ">> \o mm.search
        head == IF v = "profile"
                THEN <<rule, boxed(padToWidth(ProfileTitle, w)), rule>>
                ELSE <<rule>>
        rows == [i \in 1..ItemRowCount(v, mm) |-> boxed(RenderRow(v, mm, mm.offset + i - 1))]
        fill == [i \in 1..BlankRowCount(v, mm) |-> blank]
        panel == renderDetailsPanel(v, mm)
        details == IF HasDetailsPanel(v)
                   THEN <<blank, rule>> \o [i \in 1..Len(panel) |-> boxed(panel[i])]
                   ELSE <<>>
    IN  head \o <<boxed(padToWidth(searchLine, w)), blank>> \o rows \o fill \o details
            \o <<rule, renderStatusBar(v, mm)>>

\* a View that renders the box whether or not the model is quitting
ViewNoGuard(v, mm) == ViewLines(v, mm)

\* View: the empty string once quitting is set, else the frame
View(v, mm) == IF mm.quitting THEN <<>> ELSE ViewLines(v, mm)

-----------------------------------------------------------------------------
(* Properties *)

Running == pc = "running"

\* Browsing: the program runs and no commit or cancel has been processed
Browsing == pc = "running" /\ ~m.quitting

\* s has sub as a contiguous substring
HasSubstring(s, sub) ==
    \/ sub = <<>>
    \/ \E i \in 1..(Len(s) - Len(sub) + 1) : SubSeq(s, i, i + Len(sub) - 1) = sub

\* some search field of resource k, case-folded, contains the case-folded query
FieldHasQuery(v, k, query) ==
    LET q == ToLower(query)
    IN  \E i \in 1..Len(SearchFields(v, k)) :
            HasSubstring(ToLower(SearchFields(v, k)[i]), q)

\* C1: scroll visibility - in every Browsing state offset >= 0 and
\* offset <= cursor <= offset + listHeight - 1
C1_ScrollVisible ==
    Browsing =>
        /\ m.offset >= 0
        /\ m.offset <= m.cursor
        /\ m.cursor <= m.offset + ListHeight(variant) - 1

\* C2: cursor bound - 0 <= cursor < len(filtered) when filtered is non-empty, and
\* cursor = 0 when filtered is empty
C2_CursorBound ==
    Running =>
        IF Len(m.filtered) > 0
        THEN 0 <= m.cursor /\ m.cursor < Len(m.filtered)
        ELSE m.cursor = 0

\* a query shortened the list below the cursor, which was pulled back to the last row
C2_Witness ==
    /\ Browsing
    /\ m.search # <<>>
    /\ Len(m.filtered) < Len(m.items)
    /\ Len(m.filtered) >= 2
    /\ m.cursor = Len(m.filtered) - 1

\* C3: terminal outcome exclusivity - selected and cancelled are never both set
C3_OutcomeExclusive == Running => ~(m.selected # 0 /\ m.cancelled)

\* C4: after a Cancel processed in Browsing the model stays cancelled whatever
\* follows, and the outcome Select returns from the final model is the cancelled
\* one, with no item
C4_CancelIsFinal ==
    firstQuit.kind = "cancel" =>
        /\ Running => (m.cancelled /\ m.quitting /\ quitPending)
        /\ (pc = "returned" /\ ret.err # "error running selector") =>
               (ret.err = "selection cancelled" /\ ret.item = 0)

\* an Enter was processed after the Cancel and selected an item
C4_Witness == Running /\ firstQuit.kind = "cancel" /\ m.selected # 0 /\ late >= 1

\* C5: filter correctness - an item of items is in filtered iff one of the variant's
\* search fields, lower-cased, contains the lower-cased query; the empty query
\* leaves filtered equal to items
C5_FilterCorrect ==
    Running =>
        /\ \A i \in 1..Len(m.items) :
               (\E j \in 1..Len(m.filtered) : m.filtered[j] = m.items[i])
                   <=> FieldHasQuery(variant, m.items[i], m.search)
        /\ m.search = <<>> => m.filtered = m.items

\* the instance filter kept resource 2, which matches "3" through its ASG alone
C5_Witness ==
    /\ Running
    /\ variant = "instance"
    /\ m.search = <<"3">>
    /\ \E j \in 1..Len(m.filtered) : m.filtered[j] = 2
    /\ Len(m.filtered) < Len(m.items)

\* C6: filtered is the order-preserving view of items under the current search
\* string - the items that match it, in the order they have in items
C6_FilteredIsOrderedView ==
    Running =>
        m.filtered = SelectSeq(m.items, LAMBDA k : FieldHasQuery(variant, k, m.search))

\* a typed query left several items, with gaps, out of a longer list
C6_Witness ==
    /\ Running
    /\ m.search # <<>>
    /\ Len(m.filtered) >= 3
    /\ Len(m.filtered) < Len(m.items)
    /\ m.filtered[1] # m.items[1]

\* C7: row width - for terminal widths in [60, 120] every rendered list row is
\* exactly contentWidth wide between the borders
C7_RowWidthExact ==
    (Browsing /\ m.termWidth >= minWidth /\ m.termWidth <= maxWidth) =>
        \A idx \in VisibleRows(variant, m) :
            Len(RenderRow(variant, m, idx)) = m.contentWidth

\* C8: layout clamp - contentWidth is termWidth - 2 clamped to [minWidth, maxWidth]
C8_ContentWidthClamped ==
    Running =>
        /\ m.contentWidth >= minWidth
        /\ m.contentWidth <= maxWidth
        /\ m.contentWidth = Max(minWidth, Min(maxWidth, m.termWidth - 2))

\* C9: empty input fails fast - a Select function called with no items returns an
\* error and no item, and the terminal program never runs
C9_EmptyInputFailsFast ==
    (Len(input) = 0 /\ pc # "idle") =>
        /\ pc \in {"returned", "done"}
        /\ ret.err = "none available"
        /\ ret.item = 0
        /\ ~programRuns
        /\ m = ZeroModel

\* a Select function returned on an empty list
C9_Witness == Len(input) = 0 /\ pc = "returned"

\* C10: commit - in Browsing, Enter with non-empty filtered selects filtered[cursor]
\* with the default action and returns tea.Quit, so that Select returns that item;
\* Enter with empty filtered changes nothing
C10_CommitSelectsCursorItem ==
    Browsing =>
        LET r == Update(variant, m, [type |-> "Enter"])
        IN  IF Len(m.filtered) > 0
            THEN /\ r.cmd = "Quit"
                 /\ r.m = [m EXCEPT !.selected = m.filtered[m.cursor + 1],
                                    !.quitting = TRUE]
                 /\ r.m.action = "Connect"
                 /\ SelectReturn(r.m).err = "nil"
                 /\ SelectReturn(r.m).item = m.filtered[m.cursor + 1]
            ELSE r.m = m /\ r.cmd = "nil"

\* an Enter committed the row under a cursor that was moved down a filtered list
C10_Witness ==
    /\ Running
    /\ late = 0
    /\ firstQuit.kind = "commit"
    /\ m.search # <<>>
    /\ m.cursor >= 1
    /\ Len(m.filtered) < Len(m.items)
    /\ firstQuit.item = m.filtered[m.cursor + 1]
    /\ firstQuit.item # m.items[m.cursor + 1]

\* the action tag the VM selector documents for each committing key
TagOfKey(key) ==
    CASE key = "Enter" -> "Connect"
      [] key = "CtrlS" -> "Start"
      [] key = "CtrlX" -> "Stop"

CommitKeys == {"Enter", "CtrlS", "CtrlX"}

\* C11: named actions of the VM selector - Enter, Ctrl+S and Ctrl+X commit
\* filtered[cursor] with the tags Connect, Start and Stop and return tea.Quit; each
\* changes nothing when filtered is empty; no other message writes selected or
\* action; and SelectVM returns the item together with the tag of the committing key
C11_VMNamedActions ==
    /\ [](variant = "vm" =>
             /\ Running =>
                    \A key \in CommitKeys :
                        LET r == Update(variant, m, [type |-> key])
                        IN  IF Len(m.filtered) > 0
                            THEN /\ r.cmd = "Quit"
                                 /\ r.m = [m EXCEPT !.selected = m.filtered[m.cursor + 1],
                                                    !.action = TagOfKey(key),
                                                    !.quitting = TRUE]
                                 /\ ~m.cancelled =>
                                        SelectReturn(r.m) =
                                            [err |-> "nil", item |-> m.filtered[m.cursor + 1],
                                             action |-> TagOfKey(key)]
                            ELSE r.m = m /\ r.cmd = "nil"
             /\ (pc = "returned" /\ ret.err = "nil" /\ ret.item # 0 /\ late = 0) =>
                    /\ firstQuit.kind = "commit"
                    /\ ret.item = firstQuit.item
                    /\ ret.action = TagOfKey(firstQuit.key))
    /\ [][(/\ variant = "vm"
           /\ Running
           /\ pc' = "running"
           /\ (m'.selected # m.selected \/ m'.action # m.action))
              => (KeyEnter \/ KeyCtrlS \/ KeyCtrlX)]_vars

\* SelectVM returned a VM below the first row with the tag Stop after a Ctrl+X
C11_Witness ==
    /\ variant = "vm"
    /\ pc = "returned"
    /\ ret.err = "nil"
    /\ late = 0
    /\ firstQuit.key = "CtrlX"
    /\ ret.action = "Stop"
    /\ ret.item # input[1]

\* C12: cancel - from every Browsing state Esc and Ctrl-C set cancelled and quitting
\* and return tea.Quit in that step, whatever the cursor, the query and filtered are;
\* after a cancel the session ends and Select returns (the cancelled outcome, or the
\* driver's error)
C12_CancelEndsSession ==
    /\ [](Browsing =>
             \A key \in {"Esc", "CtrlC"} :
                 LET r == Update(variant, m, [type |-> key])
                 IN  /\ r.cmd = "Quit"
                     /\ r.m = [m EXCEPT !.cancelled = TRUE, !.quitting = TRUE]
                     /\ SelectReturn(r.m).err = "selection cancelled"
                     /\ SelectReturn(r.m).item = 0)
    /\ ((Running /\ firstQuit.kind = "cancel") ~>
            (pc = "returned" /\ ret.err \in {"selection cancelled", "error running selector"}))

\* a cancel ended the session with the cancelled outcome although one more event
\* was processed after it
C12_Witness ==
    /\ pc = "returned"
    /\ firstQuit.kind = "cancel"
    /\ ret.err = "selection cancelled"
    /\ late >= 1

\* the kind of outcome a caller reads off the values a Select function returned
Outcome(r) ==
    CASE r.err = "nil" /\ r.item # 0 -> "committed"
      [] r.err = "selection cancelled" -> "cancelled"
      [] r.err = "none available" -> "empty input"
      [] r.err = "error running selector" -> "driver failure"
      [] OTHER -> "none"

\* C13: distinguishable outcomes - the empty-input return, the driver-failure return,
\* the cancelled return and the committed return each produce their own kind of
\* value: errors carry no item, a cancelled model returns the cancellation error
\* and a committed one the item and action with a nil error
C13_OutcomesDistinguishable ==
    [][/\ SelectEmpty => (Outcome(ret') = "empty input" /\ ret'.item = 0)
       /\ RunError => (Outcome(ret') = "driver failure" /\ ret'.item = 0)
       /\ (QuitMsg /\ m.cancelled) => (Outcome(ret') = "cancelled" /\ ret'.item = 0)
       /\ (QuitMsg /\ ~m.cancelled) =>
              /\ Outcome(ret') = "committed"
              /\ ret'.item = m.selected
              /\ ret'.action = m.action]_vars

\* the driver failed after a commit key was processed: the failure is returned
C13_Witness ==
    /\ pc = "returned"
    /\ firstQuit.kind = "commit"
    /\ Outcome(ret) = "driver failure"

\* C14: callers - every command that calls a Select function returns success on the
\* cancelled outcome and returns a (printed) error on the empty-input error and on
\* the driver failure
C14_CallersSilentOnCancel ==
    pc = "done" =>
        /\ Outcome(ret) = "cancelled" => cmdErr = "nil"
        /\ Outcome(ret) \in {"empty input", "driver failure"} => cmdErr # "nil"

\* C15: constant detail panel height - in every Browsing state of a variant with a
\* detail panel the panel has the height it has for a non-empty list: header,
\* underline, one line per detail field and the trailing line
C15_DetailsPanelHeightConstant ==
    (Browsing /\ HasDetailsPanel(variant)) =>
        DetailsPanelHeight(variant, m) = 1 + 1 + DetailRows(variant) + 1

\* the widths resize events are probed with: below, at and above both clamps
ProbeWidths == {0, 61, 62, 90, 122, 123}

\* C16: idempotent resize - from every running state, a second Resize(w) right after
\* a Resize(w) returns the model the first one returned (termWidth, contentWidth and
\* column widths included) and no command
C16_ResizeIdempotent ==
    Running =>
        \A w \in ProbeWidths :
            LET msg == [type |-> "WindowSize", width |-> w]
                once == Update(variant, m, msg).m
                twice == Update(variant, once, msg)
            IN  /\ twice.m = once
                /\ twice.cmd = "nil"
                /\ once.termWidth = w

\* a resize to 130 columns has been processed, and one more leaves the model as it is
C16_Witness ==
    /\ Running
    /\ m.termWidth = 130
    /\ m.contentWidth >= maxWidth
    /\ Update(variant, m, [type |-> "WindowSize", width |-> 130]).m = m

\* C17: resize frame condition - a Resize(w) sets termWidth to w and recomputes
\* contentWidth and the column widths; items, filtered, cursor, offset, search,
\* selected, action, quitting and cancelled keep their values, and no command is
\* returned
C17_ResizeFrame ==
    Running =>
        \A w \in ProbeWidths :
            LET r == Update(variant, m, [type |-> "WindowSize", width |-> w])
            IN  /\ r.cmd = "nil"
                /\ r.m = [m EXCEPT !.termWidth = w,
                                   !.contentWidth = r.m.contentWidth,
                                   !.colWidths = r.m.colWidths]

\* a resize was processed with the cursor scrolled below the first page of a
\* filtered list, and left them in place
C17_Witness ==
    /\ Browsing
    /\ m.termWidth = 64
    /\ m.search # <<>>
    /\ m.cursor >= 1
    /\ m.offset >= 1

\* C18: exits of the loop - once p.Run was entered, Select returns only after a
\* Commit (or named Action) or a Cancel was processed, with the committed or the
\* cancelled outcome
C18_OnlyCommitOrCancelExit ==
    (pc = "returned" /\ programRuns) =>
        /\ firstQuit.kind \in {"commit", "cancel"}
        /\ Outcome(ret) \in {"committed", "cancelled"}

SortedIndex(items, cur) ==
    Cardinality({i \in 1..Len(items) : StrLess(Name(items[i]), Name(cur))})

\* C20: SelectContext pre-highlight - when the current context is among the
\* contexts, the model handed to the program has the cursor on its index in the
\* name-sorted list and that row inside the window offset .. offset + listHeight - 1
C20_CurrentContextVisible ==
    (/\ variant = "context"
     /\ pc = "running"
     /\ \E i \in 1..Len(input) : input[i] = current
     /\ m = InitialModel(variant, input, current)) =>
        /\ m.cursor = SortedIndex(input, current)
        /\ m.offset <= m.cursor
        /\ m.cursor <= m.offset + ListHeight(variant) - 1

C22_CharacterInput ==
    [][(Browsing /\ pc' = "running" /\ Len(m'.search) > Len(m.search)) =>
          /\ KeyRunes
          /\ \E r \in RuneInputs : m'.search = m.search \o UTF8(r)
          /\ LET f == SelectSeq(m.items, LAMBDA k : FieldHasQuery(variant, k, m'.search))
             IN  m' = [m EXCEPT !.search = m'.search,
                                !.filtered = f,
                                !.cursor = IF Len(f) = 0 THEN 0
                                           ELSE Min(m.cursor, Len(f) - 1),
                                !.offset = 0]]_vars

\* the instance selector narrowed to the one instance whose ASG matches "W3", with
\* the cursor on it and the list scrolled to the top
C22_Witness ==
    /\ Browsing
    /\ variant = "instance"
    /\ Len(m.items) = MaxItems
    /\ m.search = <<"W", "3">>
    /\ m.filtered = <<2>>
    /\ m.cursor = 0
    /\ m.offset = 0

\* C23: backspace undoes the last character input - from every Browsing state, a
\* character input event (one key message, of one or several characters, of one or
\* several bytes each) followed by one Backspace restores the search string and
\* filtered
C23_BackspaceUndoesInput ==
    Browsing =>
        \A r \in RuneInputs :
            LET typed == Update(variant, m, [type |-> "Runes", runes |-> r]).m
                undone == Update(variant, typed, [type |-> "Backspace"]).m
            IN  /\ undone.search = m.search
                /\ undone.filtered = m.filtered

\* C24: backspace on an empty search string - Update returns the model unchanged
\* (search, filtered, cursor and offset included: the filter is not run and offset
\* is not reset) and no command
C24_BackspaceOnEmptyIsNoOp ==
    (Running /\ m.search = <<>>) =>
        Update(variant, m, [type |-> "Backspace"]) = [m |-> m, cmd |-> "nil"]

\* the search string is empty and the list is scrolled down: a filter run would
\* reset the offset
C24_Witness ==
    /\ Browsing
    /\ m.search = <<>>
    /\ m.offset >= 2
    /\ m.cursor = Len(m.filtered) - 1
    /\ Update(variant, m, [type |-> "Backspace"]).m.offset = m.offset

\* C25: boundary moves - MoveUp with cursor = 0, and MoveDown with the cursor on
\* the last row of filtered or with filtered empty, return the model unchanged and
\* no command (no wrap-around)
C25_BoundaryMovesAreNoOps ==
    Running =>
        /\ m.cursor = 0 =>
               Update(variant, m, [type |-> "Up"]) = [m |-> m, cmd |-> "nil"]
        /\ (m.cursor = Len(m.filtered) - 1 \/ Len(m.filtered) = 0) =>
               Update(variant, m, [type |-> "Down"]) = [m |-> m, cmd |-> "nil"]

\* the cursor went down to the last row of a list longer than the list area
C25_Witness ==
    /\ Browsing
    /\ Len(m.filtered) > ListHeight(variant)
    /\ m.cursor = Len(m.filtered) - 1
    /\ m.offset = m.cursor - ListHeight(variant) + 1
    /\ Update(variant, m, [type |-> "Down"]).m.cursor = m.cursor

RECURSIVE DownTimes(_, _, _)
\* the model after k MoveDown events
DownTimes(v, mm, k) ==
    IF k = 0 THEN mm ELSE DownTimes(v, Update(v, mm, [type |-> "Down"]).m, k - 1)

\* C26: scrolling - from the state with n items, the empty query and the cursor on
\* row 0, k <= n - 1 MoveDown events give cursor = k and
\* offset = max(0, k - listHeight + 1); and a MoveUp (from any state) lowers offset
\* only when the new cursor is below offset, and then to the new cursor
C26_ScrollDownThenUp ==
    /\ (Browsing /\ m.search = <<>> /\ m.cursor = 0 /\ m.offset = 0) =>
           \A k \in 0..(Len(m.items) - 1) :
               LET s == DownTimes(variant, m, k)
               IN  /\ s.cursor = k
                   /\ s.offset = Max(0, k - ListHeight(variant) + 1)
    /\ Running =>
           LET u == Update(variant, m, [type |-> "Up"]).m
           IN  u.offset = IF u.cursor < m.offset THEN u.cursor ELSE m.offset

\* nine MoveDown events on an eleven-item list with an eight-row list area: cursor
\* 9, offset 2
C26_Witness ==
    /\ Browsing
    /\ ListHeight(variant) = 8
    /\ m.search = <<>>
    /\ m.cursor = 9
    /\ m.offset = 2
    /\ DownTimes(variant, InitialModel(variant, input, 0), 9) = m

\* C27: list area height - in every Browsing state of every variant the list area
\* has exactly listHeight lines: the item rows
\* filtered[offset .. min(offset + listHeight, len(filtered)) - 1], then blank lines
C27_ListAreaHeight ==
    Browsing =>
        /\ ItemRowCount(variant, m) + BlankRowCount(variant, m) = ListHeight(variant)
        /\ ItemRowCount(variant, m) = Cardinality(VisibleRows(variant, m))
        /\ VisibleRows(variant, m) =
               m.offset .. (Min(m.offset + ListHeight(variant), Len(m.filtered)) - 1)

\* a query left fewer items than the list area has lines: item rows and blank lines
C27_Witness ==
    /\ Browsing
    /\ m.search # <<>>
    /\ ItemRowCount(variant, m) >= 2
    /\ BlankRowCount(variant, m) >= 2
    /\ ItemRowCount(variant, m) = Len(m.filtered)

C28_DetailLineWidth ==
    (Browsing /\ HasDetailsPanel(variant)) =>
        LET panel == renderDetailsPanel(variant, m)
            lw == DetailLabelWidth(variant)
            room == m.contentWidth - 1 - lw
        IN  /\ \A i \in 1..Len(panel) : StringWidth(panel[i]) = m.contentWidth
            /\ Len(m.filtered) > 0 =>
                   \A i \in 1..Len(DetailFields(variant, DetailsItem(m))) :
                       LET value == DetailFields(variant, DetailsItem(m))[i][2]
                           shown == SubSeq(panel[2 + i], lw + 2,
                                           lw + 1 + Min(StringWidth(value), room))
                       IN  IF StringWidth(value) > room
                           THEN /\ shown = padRight(value, room)
                                /\ SubSeq(shown, room - 2, room) = Ellipsis
                           ELSE shown = value

\* C29: cursor indicator - in every Browsing state with non-empty filtered the row
\* of the cursor is among the rendered rows and starts with " > ", and every other
\* rendered row starts with three spaces, in every variant
C29_CursorIndicator ==
    (Browsing /\ Len(m.filtered) > 0) =>
        /\ m.cursor \in VisibleRows(variant, m)
        /\ \A idx \in VisibleRows(variant, m) :
               SubSeq(RenderRow(variant, m, idx), 1, 3) =
                   IF idx = m.cursor THEN <<" ", ">", " ">> ELSE <<" ", " ", " ">>

\* C31: no frame from a terminal state - while the program runs, the frame rendered
\* last is empty once quitting is set (a commit or a cancel was processed) and is
\* not empty in a Browsing state
C31_NoFrameFromTerminalState ==
    [](Running =>
          /\ m.quitting => View(variant, frame) = <<>>
          /\ ~m.quitting => (View(variant, frame) # <<>> /\ View(variant, m) # <<>>))

\* a commit was processed and one more event after it: the frame is empty
C31_Witness ==
    /\ Running
    /\ firstQuit.kind = "commit"
    /\ late >= 1
    /\ frame.quitting
    /\ View(variant, frame) = <<>>

\* C32: items are fixed - the model is built on the list Select was given (sorted by
\* name for contexts), no event changes items, and the Backspace that clears the
\* query sets filtered back to exactly items
C32_ItemsFixed ==
    [][/\ (SelectStart /\ variant # "context") => m'.items = input
       /\ (SelectStart /\ variant = "context") =>
              /\ Len(m'.items) = Len(input)
              /\ \A i \in 1..Len(input) : \E j \in 1..Len(input) : m'.items[j] = input[i]
       /\ (Running /\ pc' = "running") =>
              /\ m'.items = m.items
              /\ (m.search # <<>> /\ m'.search = <<>>) => (KeyBackspace /\ m'.filtered = m.items)]_vars

\* the query was typed and cleared again: filtered is the full list, and the cursor
\* stands where the narrowed list had left it, below the first page with offset 0
C32_Witness ==
    /\ Browsing
    /\ variant = "instance"
    /\ m.search = <<>>
    /\ m.offset = 0
    /\ m.cursor >= listHeight
    /\ m.filtered = input
    /\ m.items = input

\* the widths of the columns of the variant's row other than the name column
FixedColumns(v, mm) ==
    CASE v = "instance" -> SubSeq(mm.colWidths, 1, 3)
      [] v = "vm" -> SubSeq(mm.colWidths, 1, 4)
      [] v = "context" -> SubSeq(mm.colWidths, 2, 4)

\* the width of the name column
NameColumn(v, mm) == IF v = "context" THEN mm.colWidths[1] ELSE mm.colWidths[Len(mm.colWidths)]

RECURSIVE SumSeq(_)
SumSeq(q) == IF q = <<>> THEN 0 ELSE Head(q) + SumSeq(Tail(q))

\* C33: flexible column - in the instance, VM and context selectors the name column
\* is max(10, contentWidth - (3 + the fixed column widths + 2 per separator)) wide
\* in every running state, whatever resizes were processed
C33_FlexColumnWidth ==
    (Running /\ variant \in {"instance", "vm", "context"}) =>
        LET fixed == FixedColumns(variant, m)
        IN  /\ NameColumn(variant, m) =
                   Max(10, m.contentWidth - (3 + SumSeq(fixed) + 2 * Len(fixed)))
            /\ variant = "instance" => fixed = <<colWidthID, colWidthIP, colWidthState>>
            /\ variant = "vm" =>
                   fixed = <<vmColWidthID, vmColWidthState, vmColWidthType, vmColWidthZone>>

\* a resize to 40 columns left the floor of 10, one to 130 columns a wide name column
C33_Witness ==
    /\ Running
    /\ variant = "instance"
    /\ m.termWidth = 40
    /\ NameColumn(variant, m) = 10
    /\ NameColumn(variant, OnWindowSize(variant, m, 130)) = maxWidth - fixedWidth

\* C34: nil error implies an item - whenever a Select function returns a nil error
\* it returns a selected item, also when the program was ended by something other
\* than a commit or cancel key, so that callers may dereference the result
C34_NilErrorImpliesItem ==
    /\ (pc \in {"returned", "done"} /\ ret.err = "nil") => ret.item # 0
    /\ pc = "done" => cmdErr # "panic: nil pointer dereference"

\* C35: commit is final - when events queued behind the first commit key reach
\* Update before the loop stops, Select still returns the item and action under the
\* cursor at that first commit key, never the cancelled outcome
C35_CommitIsFinal ==
    (pc = "returned" /\ firstQuit.kind = "commit" /\ ret.err # "error running selector") =>
        ret = [err |-> "nil", item |-> firstQuit.item, action |-> firstQuit.action]

\* C36: scroll window bound - in every running state
\* offset <= max(0, len(filtered) - listHeight), so that the list area has blank
\* lines only when filtered is shorter than the list area
C36_OffsetBound ==
    Running =>
        /\ m.offset <= Max(0, Len(m.filtered) - ListHeight(variant))
        /\ BlankRowCount(variant, m) > 0 => Len(m.filtered) < ListHeight(variant)

\* the list is scrolled as far as it goes: the last item is on the last line
C36_Witness ==
    /\ Browsing
    /\ Len(m.filtered) > ListHeight(variant)
    /\ m.offset = Len(m.filtered) - ListHeight(variant)
    /\ m.offset >= 2
    /\ BlankRowCount(variant, m) = 0

\* C37: detail panel and commit agree - in every Browsing state with non-empty
\* filtered the detail panel shows the fields of filtered[cursor], an Enter in that
\* state selects that same item, and its row is one of the rows of the same frame
C37_DetailsAndCommitAgree ==
    (Browsing /\ Len(m.filtered) > 0) =>
        /\ HasDetailsPanel(variant) =>
               \A i \in 1..DetailRows(variant) :
                   renderDetailsPanel(variant, m)[2 + i] =
                       renderDetailLine(variant, m.contentWidth,
                                        DetailFields(variant, m.filtered[m.cursor + 1])[i])
        /\ Update(variant, m, [type |-> "Enter"]).m.selected = m.filtered[m.cursor + 1]
        /\ m.cursor \in VisibleRows(variant, m)

\* a is a subsequence of b: a is b with some elements left out
RECURSIVE IsSubsequence(_, _)
IsSubsequence(a, b) ==
    IF a = <<>> THEN TRUE
    ELSE IF b = <<>> THEN FALSE
    ELSE IF Head(a) = Head(b) THEN IsSubsequence(Tail(a), Tail(b))
    ELSE IsSubsequence(a, Tail(b))

\* C38: typing narrows - a character input leaves a filtered list that is a
\* subsequence of the one before it, and in every running state filtered is no longer
\* than items
C38_TypingNarrows ==
    /\ [](Running => Len(m.filtered) <= Len(m.items))
    /\ [][(Running /\ pc' = "running" /\ Len(m'.search) > Len(m.search)) =>
              /\ SubSeq(m'.search, 1, Len(m.search)) = m.search
              /\ IsSubsequence(m'.filtered, m.filtered)
              /\ Len(m'.filtered) <= Len(m.filtered)]_vars

\* a second character narrowed a list that the first one had already narrowed
C38_Witness ==
    /\ Running
    /\ Len(m.search) = 2
    /\ Len(m.filtered) >= 1
    /\ Len(m.filtered) <
           Len(filterItems(variant, [m EXCEPT !.search = SubSeq(m.search, 1, 1)]).filtered)
    /\ Len(filterItems(variant, [m EXCEPT !.search = SubSeq(m.search, 1, 1)]).filtered)
           < Len(m.items)

====
